---- MODULE Spec2Model ----
(***************************************************************************)
(* A model of advanced_arg_parser.ArgumentParser: the registry built by    *)
(* add_argument, the default tiers (declared default, config files,        *)
(* environment) merged by parse_args, the argparse pass over the command   *)
(* line, and _validate_args.                                               *)
(*                                                                         *)
(* Python strings are sequences of one-character strings, so that          *)
(* startswith, lower, `in`, int() and float() are computed character by    *)
(* character.  A Python value is a record [t, n, s]: t is the runtime      *)
(* type, n the number (an int; a float in tenths; a bool as 0/1), s the    *)
(* characters of a str (or the repr of a list).                            *)
(***************************************************************************)
EXTENDS Integers, Sequences, FiniteSets, TLC

(***************************************************************************)
(* Characters and strings                                                  *)
(***************************************************************************)
UpperChars ==
    << "A", "B", "C", "D", "E", "F", "G", "H", "I", "J", "K", "L", "M",
       "N", "O", "P", "Q", "R", "S", "T", "U", "V", "W", "X", "Y", "Z" >>

LowerChars ==
    << "a", "b", "c", "d", "e", "f", "g", "h", "i", "j", "k", "l", "m",
       "n", "o", "p", "q", "r", "s", "t", "u", "v", "w", "x", "y", "z" >>

DigitChars == << "0", "1", "2", "3", "4", "5", "6", "7", "8", "9" >>

Range(f) == { f[i] : i \in DOMAIN f }

IndexOf(c, seq) == CHOOSE i \in DOMAIN seq : seq[i] = c

\* str.lower(), one character
LowerChar(c) ==
    IF c \in Range(UpperChars) THEN LowerChars[IndexOf(c, UpperChars)] ELSE c

\* str.upper(), one character
UpperChar(c) ==
    IF c \in Range(LowerChars) THEN UpperChars[IndexOf(c, LowerChars)] ELSE c

\* str.lower()
lower(s) == [ i \in 1..Len(s) |-> LowerChar(s[i]) ]

\* str.upper()
upper(s) == [ i \in 1..Len(s) |-> UpperChar(s[i]) ]

\* s.replace(a, b) for single characters a and b
replace(s, a, b) == [ i \in 1..Len(s) |-> IF s[i] = a THEN b ELSE s[i] ]

\* s.startswith(p)
startswith(s, p) == Len(s) >= Len(p) /\ SubSeq(s, 1, Len(p)) = p

\* w in s  (substring test)
Contains(s, w) ==
    \E i \in 0..(Len(s) - Len(w)) : SubSeq(s, i + 1, i + Len(w)) = w

\* any(word in s for word in words)
ContainsAny(s, words) == \E w \in Range(words) : Contains(s, w)

IsSpace(c) == c \in { " ", "\t" }

\* str.strip() (int() and float() strip their argument too)
RECURSIVE lstrip(_)
lstrip(s) ==
    IF s # << >> /\ IsSpace(Head(s)) THEN lstrip(Tail(s)) ELSE s

RECURSIVE rstrip(_)
rstrip(s) ==
    IF s # << >> /\ IsSpace(s[Len(s)]) THEN rstrip(SubSeq(s, 1, Len(s) - 1)) ELSE s

strip(s) == rstrip(lstrip(s))

(***************************************************************************)
(* Python values                                                           *)
(***************************************************************************)
IntV(n) == [ t |-> "int", n |-> n, s |-> << >> ]

\* a float with one decimal digit, held in tenths: FloatV(25) is 2.5
FloatV(n10) == [ t |-> "float", n |-> n10, s |-> << >> ]

BoolV(b) == [ t |-> "bool", n |-> IF b THEN 1 ELSE 0, s |-> << >> ]

StrV(s) == [ t |-> "str", n |-> 0, s |-> s ]

NoneV == [ t |-> "none", n |-> 0, s |-> << >> ]

\* the JSON array [1], decoded to a Python list; s is its repr
ListV == [ t |-> "list", n |-> 1, s |-> << "[", "1", "]" >> ]

\* isinstance(v, ty): bool is a subclass of int
isinstance(v, ty) ==
    CASE ty = "int" -> v.t \in { "int", "bool" }
      [] ty = "float" -> v.t = "float"
      [] ty = "bool" -> v.t = "bool"
      [] ty = "str" -> v.t = "str"
      [] OTHER -> FALSE

AllDigits(s) == s # << >> /\ \A i \in DOMAIN s : s[i] \in Range(DigitChars)

RECURSIVE DigitsValue(_)
DigitsValue(s) ==
    IF s = << >> THEN 0
    ELSE 10 * DigitsValue(SubSeq(s, 1, Len(s) - 1))
         + (IndexOf(s[Len(s)], DigitChars) - 1)

HasSign(s) == s # << >> /\ Head(s) \in { "+", "-" }

Unsigned(s) == IF HasSign(s) THEN Tail(s) ELSE s

Signed(s, n) == IF HasSign(s) /\ Head(s) = "-" THEN 0 - n ELSE n

\* int(s) for a str s: [ok |-> FALSE] stands for ValueError
IntOfStr(s) ==
    LET body == strip(s)
        digits == Unsigned(body)
    IN  IF AllDigits(digits)
        THEN [ ok |-> TRUE, v |-> IntV(Signed(body, DigitsValue(digits))) ]
        ELSE [ ok |-> FALSE, v |-> NoneV ]

DotAt(s) == IF "." \in Range(s) THEN IndexOf(".", s) ELSE 0

\* float(s) for a str s of the form [sign] digits [. digit]
FloatOfStr(s) ==
    LET body == strip(s)
        num == Unsigned(body)
        dot == DotAt(num)
        whole == IF dot = 0 THEN num ELSE SubSeq(num, 1, dot - 1)
        frac == IF dot = 0 THEN << >> ELSE SubSeq(num, dot + 1, Len(num))
        wellFormed ==
            /\ (whole # << >> \/ frac # << >>)
            /\ (whole = << >> \/ AllDigits(whole))
            /\ (frac = << >> \/ (AllDigits(frac) /\ Len(frac) = 1))
        tenths == 10 * DigitsValue(whole) + DigitsValue(frac)
    IN  IF wellFormed
        THEN [ ok |-> TRUE, v |-> FloatV(Signed(body, tenths)) ]
        ELSE [ ok |-> FALSE, v |-> NoneV ]

RECURSIVE NatToStr(_)
NatToStr(n) ==
    IF n < 10 THEN << DigitChars[n + 1] >>
    ELSE NatToStr(n \div 10) \o << DigitChars[(n % 10) + 1] >>

\* str(n) for an int n
IntToStr(n) == IF n < 0 THEN << "-" >> \o NatToStr(0 - n) ELSE NatToStr(n)

\* repr of a float held in tenths
FloatToStr(n10) ==
    LET a == IF n10 < 0 THEN 0 - n10 ELSE n10
    IN  (IF n10 < 0 THEN << "-" >> ELSE << >>)
        \o NatToStr(a \div 10) \o << "." >> \o NatToStr(a % 10)

\* int(x) truncates a float towards zero
TruncTenths(n10) == IF n10 < 0 THEN 0 - ((0 - n10) \div 10) ELSE n10 \div 10

\* ty(v): the constructor call expected_type(value).  [ok |-> FALSE]
\* stands for the ValueError or TypeError the call raises.
Construct(ty, v) ==
    CASE ty = "int" ->
            CASE v.t \in { "int", "bool" } -> [ ok |-> TRUE, v |-> IntV(v.n) ]
              [] v.t = "float" -> [ ok |-> TRUE, v |-> IntV(TruncTenths(v.n)) ]
              [] v.t = "str" -> IntOfStr(v.s)
              [] OTHER -> [ ok |-> FALSE, v |-> NoneV ]
      [] ty = "float" ->
            CASE v.t \in { "int", "bool" } -> [ ok |-> TRUE, v |-> FloatV(10 * v.n) ]
              [] v.t = "float" -> [ ok |-> TRUE, v |-> v ]
              [] v.t = "str" -> FloatOfStr(v.s)
              [] OTHER -> [ ok |-> FALSE, v |-> NoneV ]
      [] ty = "bool" ->
            CASE v.t \in { "int", "bool", "float" } -> [ ok |-> TRUE, v |-> BoolV(v.n # 0) ]
              [] v.t \in { "str", "list" } -> [ ok |-> TRUE, v |-> BoolV(v.s # << >>) ]
              [] OTHER -> [ ok |-> TRUE, v |-> BoolV(FALSE) ]
      [] ty = "str" ->
            CASE v.t = "int" -> [ ok |-> TRUE, v |-> StrV(IntToStr(v.n)) ]
              [] v.t = "float" -> [ ok |-> TRUE, v |-> StrV(FloatToStr(v.n)) ]
              [] v.t = "bool" ->
                    [ ok |-> TRUE,
                      v |-> StrV(IF v.n = 1 THEN << "T", "r", "u", "e" >>
                                 ELSE << "F", "a", "l", "s", "e" >>) ]
              [] v.t = "none" -> [ ok |-> TRUE, v |-> StrV(<< "N", "o", "n", "e" >>) ]
              [] OTHER -> [ ok |-> TRUE, v |-> StrV(v.s) ]
      [] OTHER -> [ ok |-> FALSE, v |-> NoneV ]

(***************************************************************************)
(* Text normalisation: UnicodeEliminator.eliminate_unicode                 *)
(***************************************************************************)
\* Two characters outside ASCII, named by code point: an accented letter
\* and an emoji.
EAcute == "U+00E9"

CheckMark == "U+2705"

\* Steps 2 and 3 on one character: an emoji is removed, an accented letter
\* loses its accent, an ASCII character is kept.
AsciiOf(c) ==
    CASE c = CheckMark -> << >>
      [] c = EAcute -> << "e" >>
      [] OTHER -> << c >>

RECURSIVE ToAscii(_)
ToAscii(s) == IF s = << >> THEN << >> ELSE AsciiOf(Head(s)) \o ToAscii(Tail(s))

\* Step 4, re.sub(r"\s+", " ", text): each run of whitespace becomes one space
RECURSIVE CollapseSpaces(_)
CollapseSpaces(s) ==
    IF s = << >> THEN << >>
    ELSE IF IsSpace(Head(s))
         THEN << " " >> \o CollapseSpaces(lstrip(Tail(s)))
         ELSE << Head(s) >> \o CollapseSpaces(Tail(s))

\* eliminate_unicode(text) for a str text
eliminate_unicode(s) == strip(CollapseSpaces(ToAscii(s)))

\* eliminate_unicode(value): a value that is not a str is returned as it is
eliminate_unicode_maximum(v) ==
    IF v.t = "str" THEN StrV(eliminate_unicode(v.s)) ELSE v

(***************************************************************************)
(* Python dicts keep insertion order: keys is the order, val the mapping   *)
(***************************************************************************)
EmptyDict == [ keys |-> << >>, val |-> << >> ]

DictHas(d, k) == k \in Range(d.keys)

\* a dict whose assignment moves an existing key to the end
DictSetMoveToEnd(d, k, v) ==
    [ keys |-> Append(SelectSeq(d.keys, LAMBDA x : x # k), k),
      val |-> [ x \in Range(d.keys) \cup { k } |-> IF x = k THEN v ELSE d.val[x] ] ]

\* d[k] = v: a new key goes last, an existing key keeps its place
DictSet(d, k, v) ==
    [ keys |-> IF DictHas(d, k) THEN d.keys ELSE Append(d.keys, k),
      val |-> [ x \in Range(d.keys) \cup { k } |-> IF x = k THEN v ELSE d.val[x] ] ]

\* d.update(e)
RECURSIVE DictUpdateFrom(_, _, _)
DictUpdateFrom(d, e, i) ==
    IF i > Len(e.keys) THEN d
    ELSE DictUpdateFrom(DictSet(d, e.keys[i], e.val[e.keys[i]]), e, i + 1)

DictUpdate(d, e) == DictUpdateFrom(d, e, 1)

(***************************************************************************)
(* The registry: add_argument and its helpers                              *)
(***************************************************************************)
DashDash == << "-", "-" >>

\* kwargs of add_argument: has is the set of keywords given
NoKwargs ==
    [ has |-> { }, type |-> "str", default |-> NoneV, required |-> FALSE,
      validator |-> "none", env_var |-> << >>, config_key |-> << >> ]

\* kwargs.get("default")
GetDefault(kw) == IF "default" \in kw.has THEN kw.default ELSE NoneV

IntWords ==
    << << "c", "o", "u", "n", "t" >>, << "n", "u", "m", "b", "e", "r" >>,
       << "s", "i", "z", "e" >>, << "p", "o", "r", "t" >>,
       << "t", "i", "m", "e", "o", "u", "t" >> >>

FloatWords ==
    << << "r", "a", "t", "e" >>, << "f", "a", "c", "t", "o", "r" >>,
       << "r", "a", "t", "i", "o" >> >>

BoolWords ==
    << << "e", "n", "a", "b", "l", "e" >>, << "d", "i", "s", "a", "b", "l", "e" >>,
       << "v", "e", "r", "b", "o", "s", "e" >>, << "q", "u", "i", "e", "t" >>,
       << "d", "e", "b", "u", "g" >> >>

\* the name patterns with the float words tried before the int words
InferFromNameFloatFirst(name) ==
    LET name_lower == lower(name)
    IN  IF ContainsAny(name_lower, FloatWords) THEN "float"
        ELSE IF ContainsAny(name_lower, IntWords) THEN "int"
        ELSE IF ContainsAny(name_lower, BoolWords) THEN "bool"
        ELSE "str"

\* the name patterns of _infer_type, without the default_value shortcut
InferFromName(name) ==
    LET name_lower == lower(name)
    IN  IF ContainsAny(name_lower, IntWords) THEN "int"
        ELSE IF ContainsAny(name_lower, FloatWords) THEN "float"
        ELSE IF ContainsAny(name_lower, BoolWords) THEN "bool"
        ELSE "str"

\* _infer_type(name, default_value)
infer_type(name, default_value) ==
    IF default_value # NoneV THEN default_value.t ELSE InferFromName(name)

\* _get_smart_default(arg_type)
get_smart_default(arg_type) ==
    CASE arg_type = "int" -> IntV(0)
      [] arg_type = "float" -> FloatV(0)
      [] arg_type = "bool" -> BoolV(FALSE)
      [] arg_type = "str" -> StrV(<< >>)
      [] OTHER -> NoneV

RequiredPatterns ==
    << << "i", "n", "p", "u", "t" >>, << "f", "i", "l", "e" >>,
       << "s", "o", "u", "r", "c", "e" >>, << "t", "a", "r", "g", "e", "t" >>,
       << "d", "e", "s", "t", "i", "n", "a", "t", "i", "o", "n" >>,
       << "h", "o", "s", "t" >>, << "s", "e", "r", "v", "e", "r" >>,
       << "d", "a", "t", "a", "b", "a", "s", "e" >>,
       << "u", "s", "e", "r", "n", "a", "m", "e" >>,
       << "p", "a", "s", "s", "w", "o", "r", "d" >> >>

\* _is_required_arg(name)
is_required_arg(name) == ContainsAny(lower(name), RequiredPatterns)

\* name = f"--{name}" unless it starts with "--"
NormalizeName(name) == IF startswith(name, DashDash) THEN name ELSE DashDash \o name

\* f"{self.env_prefix}_{name[2:].upper().replace('-', '_')}"
EnvVarName(prefix, name) ==
    prefix \o << "_" >> \o replace(upper(SubSeq(name, 3, Len(name))), "-", "_")

\* the kwargs add_argument stores for name (already normalised)
StoredKwargs(prefix, name, kwargs) ==
    LET type == IF "type" \in kwargs.has THEN kwargs.type
                ELSE infer_type(name, GetDefault(kwargs))
        fillDefault == "default" \notin kwargs.has /\ type # "bool"
    IN  [ has |-> kwargs.has \cup { "type", "required", "env_var" }
                    \cup (IF fillDefault THEN { "default" } ELSE { }),
          type |-> type,
          default |-> IF fillDefault THEN get_smart_default(type) ELSE kwargs.default,
          required |-> IF "required" \in kwargs.has THEN kwargs.required
                       ELSE is_required_arg(name),
          validator |-> kwargs.validator,
          env_var |-> IF "env_var" \in kwargs.has THEN kwargs.env_var
                      ELSE EnvVarName(prefix, name),
          config_key |-> kwargs.config_key ]

(***************************************************************************)
(* Default tiers: config files and environment                             *)
(***************************************************************************)
\* Path(path).suffix: from the last "." on
RECURSIVE suffix(_)
suffix(path) ==
    IF path = << >> THEN << >>
    ELSE IF "." \in Range(Tail(path)) THEN suffix(Tail(path))
         ELSE IF Head(path) = "." THEN path
         ELSE suffix(Tail(path))

JsonSuffix == << ".", "j", "s", "o", "n" >>

YamlSuffixes == { << ".", "y", "a", "m", "l" >>, << ".", "y", "m", "l" >> }

\* A file of the file system: kind is "missing" (exists() is false),
\* "malformed" (open or the decoder raises, or the decoded value is one
\* that update rejects before it takes any item), "mapping" (a decoded
\* object, in map) or "pairs" (a decoded array that starts with key-value
\* pairs: update takes the pairs, in map, whether or not a later element of
\* the array makes it raise).
MissingFile == [ kind |-> "missing", map |-> EmptyDict ]

MalformedFile == [ kind |-> "malformed", map |-> EmptyDict ]

MappingFile(d) == [ kind |-> "mapping", map |-> d ]

PairsFile(d) == [ kind |-> "pairs", map |-> d ]

\* the loop inside one try block: a file that raises ends the loading
RECURSIVE LoadConfigUntilMalformed(_, _, _, _)
LoadConfigUntilMalformed(defaults, files, fs, i) ==
    IF i > Len(files) \/ fs.files[files[i]].kind = "malformed" THEN defaults
    ELSE LoadConfigUntilMalformed(
             IF fs.files[files[i]].kind \in { "mapping", "pairs" }
             THEN DictUpdate(defaults, fs.files[files[i]].map) ELSE defaults,
             files, fs, i + 1)

\* _load_config_defaults: fs.files maps a path to its file, fs.yaml says
\* whether the yaml module can be imported
RECURSIVE load_config_from(_, _, _, _)
load_config_from(defaults, files, fs, i) ==
    IF i > Len(files) THEN defaults
    ELSE LET config_file == files[i]
             f == fs.files[config_file]
             decodes ==
                 \/ suffix(config_file) = JsonSuffix
                 \/ (suffix(config_file) \in YamlSuffixes /\ fs.yaml)
         IN  IF f.kind \in { "mapping", "pairs" } /\ decodes
             THEN load_config_from(DictUpdate(defaults, f.map), files, fs, i + 1)
             ELSE load_config_from(defaults, files, fs, i + 1)

load_config_defaults(files, fs) == load_config_from(EmptyDict, files, fs, 1)

TruthyTokens ==
    { << "t", "r", "u", "e" >>, << "1" >>, << "y", "e", "s" >>, << "o", "n" >> }

\* the type conversion of _load_env_defaults; [ok |-> FALSE] is the
\* ValueError that makes the variable be skipped
EnvConvert(arg_type, value) ==
    CASE arg_type = "bool" -> [ ok |-> TRUE, v |-> BoolV(lower(value) \in TruthyTokens) ]
      [] arg_type = "int" -> IntOfStr(value)
      [] arg_type = "float" -> FloatOfStr(value)
      [] OTHER -> [ ok |-> TRUE, v |-> StrV(value) ]

\* whether _load_env_defaults stores a value for arg_config
EnvProvides(arg_config, env) ==
    /\ arg_config.env_var # << >>
    /\ arg_config.env_var \in DOMAIN env
    /\ EnvConvert(arg_config.type, env[arg_config.env_var]).ok

\* _load_env_defaults
load_env_defaults(defs, env) ==
    LET provided == { a \in Range(defs.keys) : EnvProvides(defs.val[a], env) }
    IN  [ a \in provided |->
            EnvConvert(defs.val[a].type, env[defs.val[a].env_var]).v ]

\* the merge with the config file applied after the environment
MergedDefaultConfigLast(arg_name, arg_config, cfg_defaults, envd) ==
    IF DictHas(cfg_defaults, arg_name) THEN cfg_defaults.val[arg_name]
    ELSE IF arg_name \in DOMAIN envd THEN envd[arg_name]
    ELSE GetDefault(arg_config)

\* parse_args, "Merge defaults": the default handed to argparse for arg_name
MergedDefault(arg_name, arg_config, cfg_defaults, envd) ==
    IF arg_name \in DOMAIN envd THEN envd[arg_name]
    ELSE IF DictHas(cfg_defaults, arg_name) THEN cfg_defaults.val[arg_name]
    ELSE GetDefault(arg_config)

(***************************************************************************)
(* argparse: parser.parse_args(args) over the arguments parse_args added   *)
(***************************************************************************)
HelpFlags == { << "-", "-", "h", "e", "l", "p" >>, << "-", "h" >> }

\* a token argparse reads as an option, not as an argument
OptionLike(tok) == tok # << >> /\ Head(tok) = "-" /\ Len(tok) > 1

\* "Handle boolean flags": a bool argument becomes a store_true action
IsStoreTrue(arg_config) == arg_config.type = "bool"

\* argparse's type function on a string (a store_true action has none)
ArgparseType(arg_config, str) ==
    IF IsStoreTrue(arg_config) THEN [ ok |-> TRUE, v |-> StrV(str) ]
    ELSE Construct(arg_config.type, StrV(str))

ArgparseError(kind, names) ==
    [ status |-> "error", ns |-> << >>, kind |-> kind, names |-> names ]

\* after the tokens: string defaults of unseen optional actions are
\* converted, then missing required actions are reported together, then
\* unrecognized tokens
RECURSIVE ArgparseFinish(_, _, _, _, _, _)
ArgparseFinish(defs, ns, seen, extras, missing, i) ==
    IF i > Len(defs.keys)
    THEN IF missing # << >> THEN ArgparseError("required", missing)
         ELSE IF extras # << >> THEN ArgparseError("unrecognized", extras)
         ELSE [ status |-> "ok", ns |-> ns, kind |-> "none", names |-> << >> ]
    ELSE LET a == defs.keys[i]
             conv == ArgparseType(defs.val[a], ns[a].s)
         IN  IF a \in seen
             THEN ArgparseFinish(defs, ns, seen, extras, missing, i + 1)
             ELSE IF defs.val[a].required
             THEN ArgparseFinish(defs, ns, seen, extras, Append(missing, a), i + 1)
             ELSE IF ns[a].t = "str" /\ ~conv.ok
             THEN ArgparseError("invalid", << a >>)
             ELSE ArgparseFinish(defs,
                                 IF ns[a].t = "str" THEN [ ns EXCEPT ![a] = conv.v ] ELSE ns,
                                 seen, extras, missing, i + 1)

\* a store that leaves a default from a lower tier in place
StoreUnlessDefault(ns, dest, v) ==
    IF ns[dest] = NoneV THEN [ ns EXCEPT ![dest] = v ] ELSE ns

\* argparse's store action: setattr(namespace, dest, values)
Store(ns, dest, v) == [ ns EXCEPT ![dest] = v ]

\* the tokens, left to right: --help exits, a declared flag stores its
\* value (or True), anything else is kept as unrecognized
RECURSIVE ArgparseTokens(_, _, _, _, _, _)
ArgparseTokens(defs, args, ns, seen, extras, i) ==
    IF i > Len(args) THEN ArgparseFinish(defs, ns, seen, extras, << >>, 1)
    ELSE LET tok == args[i]
         IN  IF tok \in HelpFlags
             THEN [ status |-> "help", ns |-> << >>, kind |-> "none", names |-> << >> ]
             ELSE IF ~DictHas(defs, tok)
             THEN ArgparseTokens(defs, args, ns, seen, Append(extras, tok), i + 1)
             ELSE IF IsStoreTrue(defs.val[tok])
             THEN ArgparseTokens(defs, args, Store(ns, tok, BoolV(TRUE)),
                                 seen \cup { tok }, extras, i + 1)
             ELSE IF i = Len(args) \/ OptionLike(args[i + 1])
             THEN ArgparseError("expected one argument", << tok >>)
             ELSE LET conv == ArgparseType(defs.val[tok], args[i + 1])
                  IN  IF ~conv.ok THEN ArgparseError("invalid", << tok >>)
                      ELSE ArgparseTokens(defs, args, Store(ns, tok, conv.v),
                                          seen \cup { tok }, extras, i + 2)

\* parser.parse_args(args) with the merged defaults
argparse_parse_args(defs, defaults, args) ==
    ArgparseTokens(defs, args, defaults, { }, << >>, 1)

(***************************************************************************)
(* _validate_args                                                          *)
(***************************************************************************)
\* ArgumentParser(..., unicode_safe=True): the constructor's default
unicode_safe == TRUE

\* A validator is a callback of the caller.  "positive" raises unless its
\* argument is a number above zero (comparing a str, a list or None with 0
\* raises TypeError); "accept" never raises.
ValidatorRaises(validator, value) ==
    CASE validator = "positive" -> ~(value.t \in { "int", "float", "bool" } /\ value.n > 0)
      [] OTHER -> FALSE

TypeError(arg_name, expected_type, value) ==
    [ arg |-> arg_name, kind |-> "type", expected |-> expected_type, got |-> value.t ]

ValidatorError(arg_name, value) ==
    [ arg |-> arg_name, kind |-> "validator", expected |-> "none", got |-> value.t ]

\* "Apply Unicode elimination to string values if enabled"
CleanValue(raw) == IF unicode_safe THEN eliminate_unicode_maximum(raw) ELSE raw

\* "Type validation": whether the conversion is tried, and what it gives
NeedsConversion(arg_config, value) ==
    value # NoneV /\ ~isinstance(value, arg_config.type)

\* the value _validate_args leaves in the namespace for one argument
FinalValue(arg_config, raw) ==
    LET value == CleanValue(raw)
        converted == Construct(arg_config.type, value)
    IN  IF NeedsConversion(arg_config, value) /\ converted.ok THEN converted.v ELSE value

\* the value _validate_args passes to the validator: validator(value)
ValidatorArgument(arg_config, raw) == CleanValue(raw)

HasValidator(arg_config) == "validator" \in arg_config.has

\* the errors one argument appends, in order
ArgErrors(arg_name, arg_config, raw) ==
    LET value == CleanValue(raw)
        passed == ValidatorArgument(arg_config, raw)
    IN  (IF NeedsConversion(arg_config, value) /\ ~Construct(arg_config.type, value).ok
         THEN << TypeError(arg_name, arg_config.type, value) >> ELSE << >>)
        \o (IF HasValidator(arg_config) /\ ValidatorRaises(arg_config.validator, passed)
            THEN << ValidatorError(arg_name, passed) >> ELSE << >>)

\* the loop of _validate_args over args_definitions.items()
RECURSIVE validate_from(_, _, _, _, _)
validate_from(defs, ns, errs, calls, i) ==
    IF i > Len(defs.keys) THEN [ ns |-> ns, errors |-> errs, calls |-> calls ]
    ELSE LET a == defs.keys[i]
             c == defs.val[a]
         IN  validate_from(defs,
                           [ ns EXCEPT ![a] = FinalValue(c, ns[a]) ],
                           errs \o ArgErrors(a, c, ns[a]),
                           IF HasValidator(c)
                           THEN Append(calls, [ arg |-> a, value |-> ValidatorArgument(c, ns[a]) ])
                           ELSE calls,
                           i + 1)

\* a _validate_args that returns its errors to the caller
ValidationReturns(errs) == FALSE

\* what _validate_args does once the loop is over: sys.exit(1) on errors
ValidationExits(errs) == errs # << >>

validate_args(defs, ns) == validate_from(defs, ns, << >>, << >>, 1)

(***************************************************************************)
(* _find_similar_args: difflib.get_close_matches                           *)
(***************************************************************************)
\* the characters of flag names in code-point order
CodeOrder == << "-" >> \o DigitChars \o UpperChars \o << "_" >> \o LowerChars

\* x < y for strings: the first differing character decides, a proper
\* prefix is smaller
RECURSIVE StrLess(_, _)
StrLess(x, y) ==
    IF y = << >> THEN FALSE
    ELSE IF x = << >> THEN TRUE
    ELSE IF Head(x) # Head(y)
         THEN IndexOf(Head(x), CodeOrder) < IndexOf(Head(y), CodeOrder)
    ELSE StrLess(Tail(x), Tail(y))

Min(m, n) == IF m <= n THEN m ELSE n

\* how far a[i..ahi] and b[j..bhi] agree from their first characters on
RECURSIVE MatchLen(_, _, _, _, _, _)
MatchLen(a, b, i, j, ahi, bhi) ==
    IF i > ahi \/ j > bhi THEN 0
    ELSE IF a[i] # b[j] THEN 0
    ELSE 1 + MatchLen(a, b, i + 1, j + 1, ahi, bhi)

\* SequenceMatcher.find_longest_match over a[alo..ahi] and b[blo..bhi] (no
\* junk): the longest matching block; of those the one that starts
\* earliest in a; of those the one that starts earliest in b
find_longest_match(a, b, alo, ahi, blo, bhi) ==
    LET blocks == { [ i |-> i, j |-> j, size |-> MatchLen(a, b, i, j, ahi, bhi) ] :
                      i \in alo..ahi, j \in blo..bhi }
        best == CHOOSE m \in blocks :
                    \A o \in blocks :
                        \/ o.size < m.size
                        \/ o.size = m.size /\ m.i < o.i
                        \/ o.size = m.size /\ m.i = o.i /\ m.j <= o.j
    IN  IF blocks = { } THEN [ i |-> alo, j |-> blo, size |-> 0 ] ELSE best

\* the sum of the sizes of SequenceMatcher.get_matching_blocks: the longest
\* match, then the same to its left and to its right
RECURSIVE MatchesIn(_, _, _, _, _, _)
MatchesIn(a, b, alo, ahi, blo, bhi) ==
    IF alo > ahi \/ blo > bhi THEN 0
    ELSE CHOOSE total \in
            { IF m.size = 0 THEN 0
              ELSE m.size
                     + MatchesIn(a, b, alo, m.i - 1, blo, m.j - 1)
                     + MatchesIn(a, b, m.i + m.size, ahi, m.j + m.size, bhi) :
              m \in { find_longest_match(a, b, alo, ahi, blo, bhi) } } : TRUE

\* _calculate_ratio(matches, length): 2.0 * matches / length, or 1.0 when
\* length is 0, kept as the fraction num / den
calculate_ratio(matches, length) ==
    IF length = 0 THEN [ num |-> 1, den |-> 1 ]
    ELSE [ num |-> 2 * matches, den |-> length ]

\* SequenceMatcher.ratio() for seq1 = a, seq2 = b
ratio(a, b) == calculate_ratio(MatchesIn(a, b, 1, Len(a), 1, Len(b)), Len(a) + Len(b))

\* SequenceMatcher.real_quick_ratio()
real_quick_ratio(a, b) == calculate_ratio(Min(Len(a), Len(b)), Len(a) + Len(b))

\* SequenceMatcher.quick_ratio(): the characters the two have in common,
\* counted with multiplicity (an occurrence in a counts while b has as
\* many occurrences of the character)
quick_ratio(a, b) ==
    calculate_ratio(
        Cardinality({ i \in DOMAIN a :
                        Cardinality({ k \in 1..i : a[k] = a[i] })
                            <= Cardinality({ k \in DOMAIN b : b[k] = a[i] }) }),
        Len(a) + Len(b))

\* r >= 0.6
AtLeastCutoff(r) == 10 * r.num >= 6 * r.den

RatioLess(r, q) == r.num * q.den < q.num * r.den

\* (score, x) < (score, x) as Python compares tuples
TupleLess(e, f) ==
    \/ RatioLess(e.score, f.score)
    \/ e.score.num * f.score.den = f.score.num * e.score.den /\ StrLess(e.x, f.x)

\* the index of the element that sorted(result, reverse=True) puts first:
\* the greatest one, the first of them when several are equal
First(result) ==
    CHOOSE i \in DOMAIN result :
        /\ \A k \in DOMAIN result : ~TupleLess(result[i], result[k])
        /\ \A k \in 1..(i - 1) : TupleLess(result[k], result[i])

Without(result, i) == [ k \in 1..(Len(result) - 1) |-> IF k < i THEN result[k] ELSE result[k + 1] ]

\* the order of the scores alone, equal scores keeping the order of result
FirstByScore(result) ==
    CHOOSE i \in DOMAIN result :
        /\ \A k \in DOMAIN result : ~RatioLess(result[i].score, result[k].score)
        /\ \A k \in 1..(i - 1) : RatioLess(result[k].score, result[i].score)

RECURSIVE NLargestByScore(_, _)
NLargestByScore(n, result) ==
    IF n = 0 \/ result = << >> THEN << >>
    ELSE << result[FirstByScore(result)] >>
           \o NLargestByScore(n - 1, Without(result, FirstByScore(result)))

\* heapq.nlargest(n, result): sorted(result, reverse=True)[:n]
RECURSIVE nlargest(_, _)
nlargest(n, result) ==
    IF n = 0 \/ result = << >> THEN << >>
    ELSE << result[First(result)] >> \o nlargest(n - 1, Without(result, First(result)))

\* difflib.get_close_matches(word, possibilities, n, cutoff = 0.6)
get_close_matches(word, possibilities, n) ==
    LET close(x) ==
            /\ AtLeastCutoff(real_quick_ratio(x, word))
            /\ AtLeastCutoff(quick_ratio(x, word))
            /\ AtLeastCutoff(ratio(x, word))
        kept == SelectSeq(possibilities, close)
        result == [ i \in DOMAIN kept |-> [ score |-> ratio(kept[i], word), x |-> kept[i] ] ]
        largest == nlargest(n, result)
    IN  [ i \in DOMAIN largest |-> largest[i].x ]

\* arg[2:] if arg.startswith("--") else arg
WithoutDashes(arg) == IF startswith(arg, DashDash) THEN SubSeq(arg, 3, Len(arg)) ELSE arg

\* _find_similar_args(arg, candidates)
find_similar_args(arg, candidates) ==
    LET arg_clean == WithoutDashes(arg)
        candidates_clean == [ i \in DOMAIN candidates |-> WithoutDashes(candidates[i]) ]
        matches == get_close_matches(arg_clean, candidates_clean, 3)
    IN  [ i \in DOMAIN matches |-> DashDash \o matches[i] ]

(***************************************************************************)
(* The parser object and the last parse_args call                          *)
(***************************************************************************)
VARIABLES
    args_definitions,   \* self.args_definitions
    config_files,       \* self.config_files
    env_prefix,         \* self.env_prefix
    pc,                 \* "idle", or "parsed" when a parse_args call has ended
    args,               \* parse_args: its args, after Unicode elimination
    environ,            \* os.environ during the call
    fs,                 \* the files during the call
    config_defaults,    \* parse_args: config_defaults
    env_defaults,       \* parse_args: env_defaults
    default_value,      \* parse_args: default_value of each argument
    parsed_args,        \* the namespace
    errors,             \* _validate_args: errors
    calls,              \* the validator invocations, in order
    raised,             \* the SystemExit that ended the call, if one did
    suggested,          \* how often _suggest_corrections was invoked
    history,            \* the add_argument calls made, where they are recorded
    similar             \* a _find_similar_args call: arg, candidates, matches

vars ==
    << args_definitions, config_files, env_prefix, pc, args, environ, fs,
       config_defaults, env_defaults, default_value, parsed_args, errors,
       calls, raised, suggested, history, similar >>

parser == << args_definitions, config_files, env_prefix >>

NoExit == [ by |-> "none", code |-> 0, kind |-> "none", names |-> << >> ]

NoFiles == [ files |-> << >>, yaml |-> FALSE ]

\* no parse_args call to look at
NoCall ==
    /\ args = << >>
    /\ environ = << >>
    /\ fs = NoFiles
    /\ config_defaults = EmptyDict
    /\ env_defaults = << >>
    /\ default_value = << >>
    /\ parsed_args = << >>
    /\ errors = << >>
    /\ calls = << >>
    /\ raised = NoExit
    /\ suggested = 0

\* no _find_similar_args call to look at
NoSimilar == [ arg |-> << >>, candidates |-> << >>, matches |-> << >>, called |-> FALSE ]

\* ArgumentParser("app"): program_name.upper().replace("-", "_")
ProgramName == << "a", "p", "p" >>

Init ==
    /\ args_definitions = EmptyDict
    /\ config_files = << >>
    /\ env_prefix = replace(upper(ProgramName), "-", "_")
    /\ pc = "idle"
    /\ history = << >>
    /\ similar = NoSimilar
    /\ NoCall

(***************************************************************************)
(* Bounds                                                                  *)
(***************************************************************************)
\* most arguments a parser is given
MaxArgs == 2

\* most config files a parser is given
MaxConfigFiles == 2

\* most add_argument calls recorded in history
MaxCalls == 3

(***************************************************************************)
(* Operations                                                              *)
(***************************************************************************)
CallUnchanged ==
    UNCHANGED << args, environ, fs, config_defaults, env_defaults, default_value,
                 parsed_args, errors, calls, raised, suggested, similar >>

\* add_argument(name, **kwargs).  The stored kwargs carry one field the
\* code does not have, given: the keywords the caller passed.
add_argument(name, kwargs) ==
    /\ pc = "idle"
    /\ \E key \in { NormalizeName(name) } :
       /\ DictHas(args_definitions, key) \/ Len(args_definitions.keys) < MaxArgs
       /\ \E stored \in { StoredKwargs(env_prefix, key, kwargs) } :
             args_definitions' =
                DictSet(args_definitions, key,
                        [ has |-> stored.has, type |-> stored.type,
                          default |-> stored.default, required |-> stored.required,
                          validator |-> stored.validator, env_var |-> stored.env_var,
                          config_key |-> stored.config_key, given |-> kwargs.has ])
    /\ UNCHANGED << config_files, env_prefix, pc >>
    /\ CallUnchanged

\* add_config_file(path)
add_config_file(path) ==
    /\ pc = "idle"
    /\ Len(config_files) < MaxConfigFiles
    /\ config_files' = Append(config_files, path)
    /\ UNCHANGED << args_definitions, env_prefix, pc, history >>
    /\ CallUnchanged

\* set_env_prefix(prefix)
set_env_prefix(prefix) ==
    /\ pc = "idle"
    /\ env_prefix' = prefix
    /\ UNCHANGED << args_definitions, config_files, pc, history >>
    /\ CallUnchanged

\* "Apply Unicode elimination to all arguments if enabled"
CleanArgs(argv) ==
    IF unicode_safe THEN [ i \in 1..Len(argv) |-> eliminate_unicode(argv[i]) ] ELSE argv

SystemExit(by, code, kind, names) ==
    [ by |-> by, code |-> code, kind |-> kind, names |-> names ]

\* how the call ends: argparse exits (0 for help, 2 for an error),
\* _validate_args exits with 1, or the namespace is returned
ExitOf(ap, checked) ==
    CASE ap.status = "help" -> SystemExit("argparse", 0, "help", << >>)
      [] ap.status = "error" -> SystemExit("argparse", 2, ap.kind, ap.names)
      [] ValidationExits(checked.errors) ->
            SystemExit("_validate_args", 1, "validation", << >>)
      [] OTHER -> NoExit

\* parse_args(args), with the environment and the files it reads
parse_args(argv, env, files) ==
    /\ pc = "idle"
    /\ \E clean \in { CleanArgs(argv) },
          cfg \in { load_config_defaults(config_files, files) },
          envd \in { load_env_defaults(args_definitions, env) } :
       \E defaults \in { [ a \in Range(args_definitions.keys) |->
                             MergedDefault(a, args_definitions.val[a], cfg, envd) ] } :
       \E ap \in { argparse_parse_args(args_definitions, defaults, clean) } :
       \E checked \in { IF ap.status = "ok" THEN validate_args(args_definitions, ap.ns)
                         ELSE [ ns |-> << >>, errors |-> << >>, calls |-> << >> ] } :
       \E exit \in { ExitOf(ap, checked) } :
          /\ pc' = "parsed"
          /\ args' = clean
          /\ environ' = env
          /\ fs' = files
          /\ config_defaults' = cfg
          /\ env_defaults' = envd
          /\ default_value' = defaults
          /\ parsed_args' = checked.ns
          /\ errors' = checked.errors
          /\ calls' = checked.calls
          /\ raised' = exit
          /\ suggested' = IF exit.by # "none" /\ Len(clean) > 0 THEN 1 ELSE 0
          /\ UNCHANGED << args_definitions, config_files, env_prefix, history, similar >>

\* the call is over: its namespace or its SystemExit has gone to the caller
Return ==
    /\ pc = "parsed"
    /\ pc' = "idle"
    /\ args' = << >>
    /\ environ' = << >>
    /\ fs' = NoFiles
    /\ config_defaults' = EmptyDict
    /\ env_defaults' = << >>
    /\ default_value' = << >>
    /\ parsed_args' = << >>
    /\ errors' = << >>
    /\ calls' = << >>
    /\ raised' = NoExit
    /\ suggested' = 0
    /\ UNCHANGED << args_definitions, config_files, env_prefix, history, similar >>

(***************************************************************************)
(* Inputs                                                                  *)
(***************************************************************************)
MaxCountName == << "m", "a", "x", "-", "c", "o", "u", "n", "t" >>

DashedMaxCountName == << "-", "-", "m", "a", "x", "-", "c", "o", "u", "n", "t" >>

GrowthRateName == << "g", "r", "o", "w", "t", "h", "-", "r", "a", "t", "e" >>

EnableCacheName == << "e", "n", "a", "b", "l", "e", "-", "c", "a", "c", "h", "e" >>

OutputPathName == << "o", "u", "t", "p", "u", "t", "-", "p", "a", "t", "h" >>

CountRateName == << "c", "o", "u", "n", "t", "-", "r", "a", "t", "e" >>

DebugRatioName == << "D", "e", "b", "u", "g", "-", "R", "a", "t", "i", "o" >>

MaxCount == << "-", "-", "m", "a", "x", "-", "c", "o", "u", "n", "t" >>

GrowthRate == << "-", "-", "g", "r", "o", "w", "t", "h", "-", "r", "a", "t", "e" >>

EnableCache == << "-", "-", "e", "n", "a", "b", "l", "e", "-", "c", "a", "c", "h", "e" >>

OutputPath == << "-", "-", "o", "u", "t", "p", "u", "t", "-", "p", "a", "t", "h" >>

EnvMaxCount == << "A", "P", "P", "_", "M", "A", "X", "_", "C", "O", "U", "N", "T" >>

EnvGrowthRate == << "A", "P", "P", "_", "G", "R", "O", "W", "T", "H", "_", "R", "A", "T", "E" >>

EnvEnableCache == << "A", "P", "P", "_", "E", "N", "A", "B", "L", "E", "_", "C", "A", "C", "H", "E" >>

EnvOutputPath == << "A", "P", "P", "_", "O", "U", "T", "P", "U", "T", "_", "P", "A", "T", "H" >>

AppJson == << "a", "p", "p", ".", "j", "s", "o", "n" >>

SiteJson == << "s", "i", "t", "e", ".", "j", "s", "o", "n" >>

MistypedFlag == << "-", "-", "m", "a", "x", "-", "c", "u", "o", "n", "t" >>

HelpFlag == << "-", "-", "h", "e", "l", "p" >>

ToolPrefix == << "T", "O", "O", "L" >>

Str(text) == StrV(text)

KwNone == NoKwargs

KwRequired == [ NoKwargs EXCEPT !.has = { "required" }, !.required = TRUE ]

KwDefault(v) == [ NoKwargs EXCEPT !.has = { "default" }, !.default = v ]

KwValidator(f) == [ NoKwargs EXCEPT !.has = { "validator" }, !.validator = f ]

KwType(ty) == [ NoKwargs EXCEPT !.has = { "type" }, !.type = ty ]

\* the add_argument calls of Spec: << name, kwargs >>
Declarations ==
    { << MaxCountName, KwNone >>,
      << MaxCountName, KwRequired >>,
      << MaxCountName, KwDefault(IntV(1)) >>,
      << MaxCountName, KwValidator("positive") >>,
      << GrowthRateName, KwNone >>,
      << GrowthRateName, KwValidator("positive") >>,
      << EnableCacheName, KwNone >>,
      << EnableCacheName, KwDefault(BoolV(FALSE)) >>,
      << OutputPathName, KwNone >>,
      << OutputPathName, KwRequired >>,
      << OutputPathName, KwDefault(Str(<< "o", "u", "t" >>)) >> }

\* the environments of Spec
Environs ==
    { << >>,
      (EnvMaxCount :> << "8" >>) @@ (EnvGrowthRate :> << "2", ".", "5" >>)
        @@ (EnvEnableCache :> << "O", "n" >>) @@ (EnvOutputPath :> << "e", "n", "v" >>),
      (EnvMaxCount :> << "m", "a", "n", "y" >>) @@ (EnvGrowthRate :> << "f", "a", "s", "t" >>)
        @@ (EnvEnableCache :> << "n", "o", "p", "e" >>)
        @@ (EnvOutputPath :> << " ", "e", EAcute, " " >>) }

\* app.json: well-formed values, some of another type than the argument's
AppJsonMapping ==
    DictSet(DictSet(DictSet(DictSet(EmptyDict,
        MaxCount, IntV(9)),
        GrowthRate, IntV(3)),
        EnableCache, Str(<< "f", "a", "l", "s", "e" >>)),
        OutputPath, IntV(5))

\* site.json: values that cannot become the argument's type, and a key
\* without the leading "--"
SiteJsonMapping ==
    DictSet(DictSet(DictSet(EmptyDict,
        MaxCount, ListV),
        MaxCountName, IntV(4)),
        GrowthRate, Str(<< "a", "b", "c" >>))

Paths == { AppJson, SiteJson }

\* the files of Spec
FileSystems ==
    { [ files |-> (AppJson :> MappingFile(AppJsonMapping))
                    @@ (SiteJson :> MappingFile(SiteJsonMapping)),
        yaml |-> FALSE ] }

\* the command lines of Spec
ArgLists ==
    { << >>,
      << MaxCount, << "7" >> >>,
      << MaxCount, << "a", "b", "c" >> >>,
      << EnableCache >>,
      << OutputPath, << " ", "c", "a", "f", EAcute, " ", CheckMark >> >>,
      << GrowthRate, << "1", ".", "5" >> >>,
      << HelpFlag >>,
      << MistypedFlag, << "7" >> >> }

(***************************************************************************)
(* Spec: a parser is set up and parse_args is called                       *)
(***************************************************************************)
Next ==
    \/ \E d \in Declarations : UNCHANGED history /\ add_argument(d[1], d[2])
    \/ \E path \in Paths : add_config_file(path)
    \/ \E argv \in ArgLists, env \in Environs, files \in FileSystems :
          parse_args(argv, env, files)
    \/ Return

Spec == Init /\ [][Next]_vars

(***************************************************************************)
(* SpecRegistry: add_argument calls, each recorded in history              *)
(***************************************************************************)
\* the add_argument calls of SpecRegistry: << name, kwargs >>
RegistryCalls ==
    { << MaxCountName, KwNone >>,
      << MaxCountName, KwDefault(Str(<< "t", "e", "n" >>)) >>,
      << DashedMaxCountName, KwNone >>,
      << DashedMaxCountName, KwType("float") >>,
      << GrowthRateName, KwNone >>,
      << EnableCacheName, KwNone >>,
      << EnableCacheName, KwDefault(IntV(1)) >>,
      << OutputPathName, KwNone >>,
      << OutputPathName, KwDefault(NoneV) >>,
      << CountRateName, KwNone >>,
      << DebugRatioName, KwNone >> }

Recorded(name, kwargs) ==
    /\ Len(history) < MaxCalls
    /\ history' = Append(history, [ name |-> name, kwargs |-> kwargs, prefix |-> env_prefix ])

NextRegistry ==
    \E c \in RegistryCalls : Recorded(c[1], c[2]) /\ add_argument(c[1], c[2])

SpecRegistry == Init /\ [][NextRegistry]_vars

(***************************************************************************)
(* SpecConfig: a parser with config files, some of which do not decode     *)
(***************************************************************************)
BrokenJson == << "b", "r", "o", "k", "e", "n", ".", "j", "s", "o", "n" >>

LimitsJson == << "l", "i", "m", "i", "t", "s", ".", "j", "s", "o", "n" >>

Limit == << "l", "i", "m", "i", "t" >>

KwConfigKey(k) == [ NoKwargs EXCEPT !.has = { "config_key" }, !.config_key = k ]

\* the add_argument calls of SpecConfig
ConfigDeclarations ==
    { << MaxCountName, KwNone >>,
      << MaxCountName, KwConfigKey(Limit) >>,
      << GrowthRateName, KwNone >>,
      << EnableCacheName, KwNone >>,
      << OutputPathName, KwDefault(Str(<< "o", "u", "t" >>)) >> }

\* limits.json: the key a config_key names
LimitsJsonMapping == DictSet(EmptyDict, Limit, IntV(4))

\* an array of pairs: [["--max-count", 6], 7]
SitePairs == DictSet(EmptyDict, MaxCount, IntV(6))

ConfigPaths == { AppJson, SiteJson, BrokenJson, LimitsJson }

\* the files of SpecConfig
ConfigFileSystems ==
    { [ files |-> (AppJson :> MappingFile(AppJsonMapping))
                    @@ (SiteJson :> MappingFile(SiteJsonMapping))
                    @@ (BrokenJson :> MalformedFile)
                    @@ (LimitsJson :> MappingFile(LimitsJsonMapping)),
        yaml |-> FALSE ],
      [ files |-> (AppJson :> MalformedFile)
                    @@ (SiteJson :> PairsFile(SitePairs))
                    @@ (BrokenJson :> MissingFile)
                    @@ (LimitsJson :> MappingFile(LimitsJsonMapping)),
        yaml |-> FALSE ] }

\* the command lines of SpecConfig
ConfigArgLists == { << >>, << MaxCount, << "7" >> >> }

\* the environments of SpecConfig
ConfigEnvirons ==
    { << >>, (EnvMaxCount :> << "8" >>) @@ (EnvGrowthRate :> << "f", "a", "s", "t" >>) }

NextConfig ==
    \/ \E d \in ConfigDeclarations : UNCHANGED history /\ add_argument(d[1], d[2])
    \/ \E path \in ConfigPaths : add_config_file(path)
    \/ \E argv \in ConfigArgLists, env \in ConfigEnvirons, files \in ConfigFileSystems :
          parse_args(argv, env, files)
    \/ Return

SpecConfig == Init /\ [][NextConfig]_vars

(***************************************************************************)
(* SpecSimilar: _find_similar_args applied to a name and a list of names   *)
(***************************************************************************)
\* most names in the list of candidates
MaxCandidates == 4

\* the names of a registry: --cab, --car, --can, --cart, --max-count
KnownNames ==
    { << "-", "-", "c", "a", "b" >>, << "-", "-", "c", "a", "r" >>,
      << "-", "-", "c", "a", "n" >>, << "-", "-", "c", "a", "r", "t" >>, MaxCount }

\* the keys of a registry, in the order of insertion
CandidateLists ==
    { c \in UNION { [ 1..n -> KnownNames ] : n \in 0..MaxCandidates } :
        \A i, j \in DOMAIN c : i # j => c[i] # c[j] }

\* the arguments _suggest_corrections passes on: --cat, cat, --max-cuont
UnknownFlags == { << "-", "-", "c", "a", "t" >>, << "c", "a", "t" >>, MistypedFlag }

InitSimilar ==
    /\ args_definitions = EmptyDict
    /\ config_files = << >>
    /\ env_prefix = replace(upper(ProgramName), "-", "_")
    /\ pc = "idle"
    /\ history = << >>
    /\ NoCall
    /\ similar \in { [ arg |-> a, candidates |-> c, matches |-> << >>, called |-> FALSE ] :
                        a \in UnknownFlags, c \in CandidateLists }

\* self._find_similar_args(arg, defined_args)
FindSimilarArgs ==
    /\ ~similar.called
    /\ \E matches \in { find_similar_args(similar.arg, similar.candidates) } :
          similar' = [ similar EXCEPT !.matches = matches, !.called = TRUE ]
    /\ UNCHANGED << args_definitions, config_files, env_prefix, pc, history >>
    /\ UNCHANGED << args, environ, fs, config_defaults, env_defaults, default_value,
                    parsed_args, errors, calls, raised, suggested >>

NextSimilar == FindSimilarArgs

SpecSimilar == InitSimilar /\ [][NextSimilar]_vars

(***************************************************************************)
(* SpecPrefix: add_argument and set_env_prefix calls in any order          *)
(***************************************************************************)
KwEnvVar(v) == [ NoKwargs EXCEPT !.has = { "env_var" }, !.env_var = v ]

\* the add_argument calls of SpecPrefix
PrefixDeclarations ==
    { << MaxCountName, KwNone >>,
      << GrowthRateName, KwNone >>,
      << EnableCacheName, KwEnvVar(<< "C", "A", "C", "H", "E" >>) >>,
      << OutputPathName, KwNone >> }

Prefixes == { << "A", "P", "P" >>, ToolPrefix }

\* the environments of SpecPrefix: APP_MAX_COUNT, TOOL_MAX_COUNT, CACHE and
\* APP_GROWTH_RATE
PrefixEnvirons ==
    { (EnvMaxCount :> << "6" >>) @@ (EnvVarName(ToolPrefix, MaxCount) :> << "5" >>)
        @@ (<< "C", "A", "C", "H", "E" >> :> << "o", "n" >>),
      (EnvVarName(ToolPrefix, MaxCount) :> << "5" >>)
        @@ (EnvGrowthRate :> << "2", ".", "5" >>) }

NextPrefix ==
    \/ \E d \in PrefixDeclarations : UNCHANGED history /\ add_argument(d[1], d[2])
    \/ \E prefix \in Prefixes : set_env_prefix(prefix)
    \/ \E env \in PrefixEnvirons : parse_args(<< >>, env, NoFiles)
    \/ Return

SpecPrefix == Init /\ [][NextPrefix]_vars

(***************************************************************************)
(* Claims about the registry (SpecRegistry)                                *)
(***************************************************************************)
Keys == Range(args_definitions.keys)

Definition(a) == args_definitions.val[a]

\* the flag name of the i-th recorded call, with its "--"
CallKey(i) ==
    IF startswith(history[i].name, DashDash) THEN history[i].name
    ELSE DashDash \o history[i].name

FirstCallOf(i) == \A j \in 1..(i - 1) : CallKey(j) # CallKey(i)

LastCallOf(i) == \A j \in (i + 1)..Len(history) : CallKey(j) # CallKey(i)

\* the flag names of the recorded calls, each where it was first given
RECURSIVE FirstInsertions(_)
FirstInsertions(i) ==
    IF i = 0 THEN << >>
    ELSE IF FirstCallOf(i) THEN Append(FirstInsertions(i - 1), CallKey(i))
    ELSE FirstInsertions(i - 1)

\* C8: the registry holds exactly one definition per flag name (with or
\* without the leading "--"), the definition of the last add_argument call
\* made for the name, and its iteration order is the order in which the
\* names were first inserted.
C8_OneDefinitionPerName ==
    /\ args_definitions.keys = FirstInsertions(Len(history))
    /\ DOMAIN args_definitions.val = Keys
    /\ Cardinality(Keys) = Len(args_definitions.keys)
    /\ \A i \in 1..Len(history) :
          LastCallOf(i) =>
             LET d == Definition(CallKey(i))
                 kw == history[i].kwargs
             IN  /\ d.given = kw.has
                 /\ "type" \in kw.has => d.type = kw.type
                 /\ "default" \in kw.has => d.default = kw.default
                 /\ "required" \in kw.has => d.required = kw.required
                 /\ "validator" \in kw.has => d.validator = kw.validator

\* a name was given three times over, without and with "--", another name
\* in between: one definition, the last call's, in its first place
C8_Witness ==
    /\ Len(history) = 3
    /\ history[1].name = MaxCountName
    /\ history[2].name = OutputPathName
    /\ history[3].name = DashedMaxCountName
    /\ history[3].kwargs # history[1].kwargs
    /\ args_definitions.keys = << MaxCount, OutputPath >>
    /\ Definition(MaxCount).given = history[3].kwargs.has

\* what the rule of C3 gives for the names of RegistryCalls: count, number,
\* size, port, timeout -> int; else rate, factor, ratio -> float; else
\* enable, disable, verbose, quiet, debug -> bool; else str
ClaimedType(key) ==
    CASE key = MaxCount -> "int"
      [] key = DashDash \o CountRateName -> "int"
      [] key = GrowthRate -> "float"
      [] key = DashDash \o DebugRatioName -> "float"
      [] key = EnableCache -> "bool"
      [] OTHER -> "str"

TypeInferred(a) == "type" \notin Definition(a).given

DefaultDeclared(a) ==
    "default" \in Definition(a).given /\ Definition(a).default # NoneV

\* C3 as claimed: with no explicit type, the type add_argument assigns is a
\* function of the flag name only, whatever the declared default.
C3_TypeFromNameOnly ==
    \A a \in Keys : TypeInferred(a) => Definition(a).type = ClaimedType(a)

\* C3 as amended: with no explicit type, the type is the runtime type of
\* the declared default when one (other than None) is given, and the
\* function of the flag name otherwise.
C3_TypeFromDefaultThenName ==
    \A a \in Keys :
        TypeInferred(a) =>
            Definition(a).type =
                IF DefaultDeclared(a) THEN Definition(a).default.t ELSE ClaimedType(a)

\* both cases side by side: a name typed by its default against the name
\* rule, and a name with two keywords typed by the first table that matches
C3_Witness ==
    /\ MaxCount \in Keys
    /\ TypeInferred(MaxCount) /\ DefaultDeclared(MaxCount)
    /\ Definition(MaxCount).type = "str"
    /\ DashDash \o CountRateName \in Keys
    /\ Definition(DashDash \o CountRateName).type = "int"

(***************************************************************************)
(* Claims about parse_args (Spec)                                          *)
(***************************************************************************)
Parsed == pc = "parsed"

\* the call returned its namespace
Returned == Parsed /\ raised.by = "none"

\* _validate_args ran (argparse did not exit)
Validated == Parsed /\ raised.by # "argparse"

\* the tiers of one argument during the call
OnCommandLine(a) == \E i \in DOMAIN args : args[i] = a

LastOnCommandLine(a) ==
    CHOOSE i \in DOMAIN args : args[i] = a /\ \A j \in DOMAIN args : j > i => args[j] # a

\* the token given with the flag on the command line
CommandLineToken(a) == args[LastOnCommandLine(a) + 1]

InEnvironment(a) == Definition(a).env_var \in DOMAIN environ

EnvironmentToken(a) == environ[Definition(a).env_var]

InConfig(a) == a \in Range(config_defaults.keys)

ConfigValue(a) == config_defaults.val[a]

DeclaredDefault(a) ==
    IF "default" \in Definition(a).has THEN Definition(a).default ELSE NoneV

\* whether a string can be converted to a type: every string is a str and
\* gives a bool; int and float take the literals of their type
Convertible(ty, token) ==
    ty \in { "int", "float" } => Construct(ty, StrV(token)).ok

\* the value the command line gives an argument: True for a flag of type
\* bool, the converted token otherwise
CommandLineValue(a) ==
    IF Definition(a).type = "bool" THEN BoolV(TRUE)
    ELSE Construct(Definition(a).type, StrV(CommandLineToken(a))).v

AllTiersPresent(a) ==
    /\ "default" \in Definition(a).given
    /\ InConfig(a)
    /\ InEnvironment(a)
    /\ OnCommandLine(a)

\* C1: with a declared default, a config-file value, an environment value
\* and a command-line value all present for a flag, the parsed value is the
\* command-line value, whatever the other three are.
C1_CommandLineWins ==
    \A a \in Keys :
        Returned /\ AllTiersPresent(a) => parsed_args[a] = CommandLineValue(a)

\* all four tiers gave a value and the three lower ones differ from the
\* command line's
C1_Witness ==
    \E a \in Keys :
        /\ Returned /\ AllTiersPresent(a)
        /\ parsed_args[a] = CommandLineValue(a)
        /\ Definition(a).default # parsed_args[a]
        /\ ConfigValue(a) # parsed_args[a]
        /\ a \in DOMAIN env_defaults /\ env_defaults[a] # parsed_args[a]

NoTier(a) == ~InConfig(a) /\ ~InEnvironment(a) /\ ~OnCommandLine(a)

ZeroValue(ty) ==
    CASE ty = "int" -> IntV(0)
      [] ty = "float" -> FloatV(0)
      [] ty = "bool" -> BoolV(FALSE)
      [] OTHER -> StrV(<< >>)

ErrorsOf(a) == { i \in DOMAIN errors : errors[i].arg = a }

NamedByArgparse(a) == raised.by = "argparse" /\ a \in Range(raised.names)

\* C4: a definition with no declared default and no value from any tier
\* yields the zero-value of its type and no error when it is not required,
\* and ends the parse with a required-argument error when it is.
C4_ZeroValueOrMissingRequired ==
    \A a \in Keys :
        Parsed /\ "default" \notin Definition(a).given /\ NoTier(a)
               /\ "validator" \notin Definition(a).given =>
            IF Definition(a).required
            THEN raised.by = "argparse" /\ (raised.kind = "required" => NamedByArgparse(a))
            ELSE /\ ErrorsOf(a) = { }
                 /\ ~NamedByArgparse(a)
                 /\ Validated => parsed_args[a] = ZeroValue(Definition(a).type)

\* C5: a required definition whose value comes from the config file or the
\* environment, and not from the command line, gives no required-argument
\* error.
C5_RequiredMetByLowerTier ==
    \A a \in Keys :
        Parsed /\ Definition(a).required /\ ~OnCommandLine(a)
               /\ (InConfig(a) \/ a \in DOMAIN env_defaults) =>
            ~(raised.kind = "required" /\ NamedByArgparse(a))

\* a required definition no tier gives a value
MissingRequired(a) == Definition(a).required /\ NoTier(a)

\* the value supplied to a definition (on the command line, or else by the
\* environment or the config file) cannot be converted to its type
SuppliedUnconvertible(b) ==
    IF OnCommandLine(b)
    THEN /\ Definition(b).type # "bool"
         /\ LastOnCommandLine(b) < Len(args)
         /\ ~Construct(Definition(b).type, StrV(CommandLineToken(b))).ok
    ELSE /\ (InConfig(b) \/ b \in DOMAIN env_defaults)
         /\ ~Definition(b).required
         /\ ~Construct(Definition(b).type, default_value[b]).ok

\* the entries of the error report: those of _validate_args, or the one
\* message argparse exits with
ReportLength ==
    IF raised.by = "argparse" /\ raised.kind # "help" THEN 1 ELSE Len(errors)

Reported(a) == ErrorsOf(a) # { } \/ NamedByArgparse(a)

\* C6: with one required definition that has no value and one definition
\* whose supplied value cannot be converted, the error report has exactly
\* two entries, one for each.
C6_BothErrorsReported ==
    \A a, b \in Keys :
        /\ Parsed /\ a # b /\ MissingRequired(a) /\ SuppliedUnconvertible(b)
        /\ \A c \in Keys \ { a, b } : ~MissingRequired(c) /\ ~SuppliedUnconvertible(c)
        => ReportLength = 2 /\ Reported(a) /\ Reported(b)

CallsOf(a) == { i \in DOMAIN calls : calls[i].arg = a }

\* C7: when validation runs, each validator is invoked exactly once, with
\* the final value of its argument.
C7_ValidatorGetsFinalValue ==
    \A a \in Keys :
        Validated /\ "validator" \in Definition(a).given =>
            /\ Cardinality(CallsOf(a)) = 1
            /\ \A i \in CallsOf(a) : calls[i].value = parsed_args[a]

ClaimedTruthy ==
    { << "t", "r", "u", "e" >>, << "1" >>, << "y", "e", "s" >>, << "o", "n" >> }

\* the string that reaches a bool definition from the environment or,
\* under it, from the config file
StringTierToken(a) ==
    IF InEnvironment(a) THEN EnvironmentToken(a) ELSE ConfigValue(a).s

FromStringTier(a) ==
    /\ Definition(a).type = "bool"
    /\ ~OnCommandLine(a)
    /\ InEnvironment(a) \/ (InConfig(a) /\ ConfigValue(a).t = "str")

\* C9: a string that reaches a bool definition from the environment or the
\* config file gives true exactly when, lower-cased, it is one of "true",
\* "1", "yes", "on".
C9_BooleanTokens ==
    \A a \in Keys :
        Validated /\ FromStringTier(a) =>
            parsed_args[a] = BoolV(lower(StringTierToken(a)) \in ClaimedTruthy)

\* C10 as claimed: validation hands its errors back; no process exit is
\* raised from inside validation or default resolution.
C10_ValidationNeverExits ==
    Parsed /\ errors # << >> => raised.by = "none"

\* C10 as amended: when validation collects errors, _validate_args itself
\* raises the process exit, with code 1, after it has gone through every
\* definition; default resolution never raises one.
C10_ValidationExitsWithReport ==
    Parsed =>
        /\ raised.by \in { "none", "argparse", "_validate_args" }
        /\ errors # << >> <=> raised.by = "_validate_args"
        /\ raised.by = "_validate_args" =>
              /\ raised.code = 1
              /\ \A a \in Keys :
                    (parsed_args[a] # NoneV /\ ~isinstance(parsed_args[a], Definition(a).type))
                        <=> (\E i \in ErrorsOf(a) : errors[i].kind = "type")

\* validation collected an error and the call ended in its exit
C10_Witness ==
    /\ Parsed /\ errors # << >>
    /\ raised.by = "_validate_args" /\ raised.code = 1
    /\ \E a \in Keys : InConfig(a) /\ ErrorsOf(a) # { }

\* the command line names declared flags only (and their values)
OnlyDeclaredFlags ==
    \A i \in DOMAIN args : OptionLike(args[i]) => args[i] \in Keys \cup HelpFlags

\* C14: _suggest_corrections runs only on the unknown-flag path: it is
\* invoked only when argparse rejects an unrecognized flag, and never in a
\* call whose flags are all declared, whether the call fails a type,
\* requiredness or validator check or answers a help request.
C14_SuggestOnlyOnUnknownFlag ==
    Parsed =>
        /\ suggested > 0 => raised.by = "argparse" /\ raised.kind = "unrecognized"
        /\ OnlyDeclaredFlags => suggested = 0

(***************************************************************************)
(* Claims about the config tier (SpecConfig)                               *)
(***************************************************************************)
\* the file registered at position i, as it is during the call
FileAt(i) == fs.files[config_files[i]]

Undecodable(i) == FileAt(i).kind = "malformed"

\* the file at position i decoded and has a value for key k
Provides(i, k) ==
    /\ FileAt(i).kind \in { "mapping", "pairs" }
    /\ k \in Range(FileAt(i).map.keys)

Providers(k) == { i \in DOMAIN config_files : Provides(i, k) }

LastProvider(k) == CHOOSE i \in Providers(k) : \A j \in Providers(k) : j <= i

\* C11: a config file that exists but cannot be decoded never raises out of
\* default resolution and contributes no overrides: over any list of
\* registered files, a key's config value is the one of the last decodable
\* file that has the key, and a flag no file provides (and the environment
\* does not) keeps its declared default.
C11_MalformedConfigContributesNothing ==
    Parsed =>
        /\ raised.by \in { "none", "argparse", "_validate_args" }
        /\ \A k \in Range(config_defaults.keys) : Providers(k) # { }
        /\ \A a \in Keys :
              /\ Providers(a) # { } =>
                    /\ InConfig(a)
                    /\ ConfigValue(a) = FileAt(LastProvider(a)).map.val[a]
                    /\ a \notin DOMAIN env_defaults => default_value[a] = ConfigValue(a)
              /\ Providers(a) = { } /\ a \notin DOMAIN env_defaults =>
                    default_value[a] = DeclaredDefault(a)

\* a file that cannot be decoded is registered before a file that gives a
\* flag a value other than its declared default, and the call returned with
\* that value as the flag's default while another flag kept its declared one
C11_Witness ==
    \E a, b \in Keys :
        /\ Returned
        /\ \E i, j \in DOMAIN config_files : j < i /\ Provides(i, a) /\ Undecodable(j)
        /\ default_value[a] = ConfigValue(a)
        /\ ConfigValue(a) # DeclaredDefault(a)
        /\ Providers(b) = { }
        /\ default_value[b] = DeclaredDefault(b)

\* the key the config tier is claimed to look a definition up by
ClaimedConfigKey(a) ==
    IF "config_key" \in Definition(a).given THEN Definition(a).config_key ELSE a

\* C12: the config tier looks a definition up by its config_key when one
\* was given and by its flag name otherwise: when the decoded config
\* mapping has that key and neither the environment nor the command line
\* gives the flag a value, the resolved default is the mapping's value for
\* the key and the parsed value is that value (in the definition's type).
C12_ConfigKeyLookup ==
    \A a \in Keys :
        ( /\ Returned
          /\ ~InEnvironment(a)
          /\ ~OnCommandLine(a)
          /\ ClaimedConfigKey(a) \in Range(config_defaults.keys) )
        => /\ default_value[a] = config_defaults.val[ClaimedConfigKey(a)]
           /\ parsed_args[a] =
                 FinalValue(Definition(a), config_defaults.val[ClaimedConfigKey(a)])

(***************************************************************************)
(* Claims about _find_similar_args (SpecSimilar)                           *)
(***************************************************************************)
\* the similarity ratio of a known name to the unknown one
Similarity(name) == ratio(WithoutDashes(name), WithoutDashes(similar.arg))

SameSimilarity(x, y) ==
    Similarity(x).num * Similarity(y).den = Similarity(y).num * Similarity(x).den

\* where a name stands in the list of candidates
Position(name) == CHOOSE i \in DOMAIN similar.candidates : similar.candidates[i] = name

Close ==
    { i \in DOMAIN similar.candidates : AtLeastCutoff(Similarity(similar.candidates[i])) }

\* what holds of every result whatever the order of equal similarities: at
\* most 3 names, each a candidate with its "--", each with ratio >= 0.6, in
\* descending similarity, and as many as there are close candidates up to 3
TopThreeClose ==
    /\ Len(similar.matches) = Min(3, Cardinality(Close))
    /\ \A i \in DOMAIN similar.matches :
          /\ startswith(similar.matches[i], DashDash)
          /\ similar.matches[i] \in Range(similar.candidates)
          /\ AtLeastCutoff(Similarity(similar.matches[i]))
    /\ \A i, j \in DOMAIN similar.matches :
          i < j => /\ similar.matches[i] # similar.matches[j]
                   /\ ~RatioLess(Similarity(similar.matches[i]),
                                  Similarity(similar.matches[j]))
    /\ \A k \in Close : \A i \in DOMAIN similar.matches :
          similar.candidates[k] \notin Range(similar.matches) =>
             ~RatioLess(Similarity(similar.matches[i]), Similarity(similar.candidates[k]))

\* C13 as claimed: at most 3 names, each with "--" reattached and ratio >=
\* 0.6 to the unknown name, by descending similarity, and names of equal
\* similarity in the order of their insertion in the registry.
C13_TiesInInsertionOrder ==
    similar.called =>
        /\ TopThreeClose
        /\ \A i, j \in DOMAIN similar.matches :
              i < j /\ SameSimilarity(similar.matches[i], similar.matches[j])
                 => Position(similar.matches[i]) < Position(similar.matches[j])

\* C13 as amended: at most 3 names, each with "--" reattached and ratio >=
\* 0.6 to the unknown name, by descending similarity, and names of equal
\* similarity in descending order of the names themselves, whatever their
\* order of insertion; a close name left out is not greater, by similarity
\* and then by name, than a name returned.
C13_TiesInDescendingNameOrder ==
    similar.called =>
        /\ TopThreeClose
        /\ \A i, j \in DOMAIN similar.matches :
              i < j /\ SameSimilarity(similar.matches[i], similar.matches[j])
                 => StrLess(similar.matches[j], similar.matches[i])
        /\ \A k \in Close : \A i \in DOMAIN similar.matches :
              ( /\ similar.candidates[k] \notin Range(similar.matches)
                /\ SameSimilarity(similar.candidates[k], similar.matches[i]) )
              => StrLess(similar.candidates[k], similar.matches[i])

\* four close candidates, three returned, and two of equal similarity
\* returned in the opposite of their insertion order
C13_Witness ==
    /\ similar.called
    /\ Cardinality(Close) = 4
    /\ Len(similar.matches) = 3
    /\ \E i, j \in DOMAIN similar.matches :
          /\ i < j
          /\ SameSimilarity(similar.matches[i], similar.matches[j])
          /\ Position(similar.matches[j]) < Position(similar.matches[i])

(***************************************************************************)
(* Claims about the environment prefix (SpecPrefix)                        *)
(***************************************************************************)
\* the current prefix, an underscore, and the flag name in upper case with
\* its hyphens replaced by underscores
ClaimedEnvVar(a) ==
    env_prefix \o << "_" >> \o replace(upper(WithoutDashes(a)), "-", "_")

\* C15: after any sequence of add_argument and set_env_prefix calls, every
\* definition given no explicit env_var has the environment variable name
\* made of the parser's current prefix, an underscore and the flag name in
\* upper case with hyphens replaced by underscores, and that is the
\* variable parse_args reads for the definition.
C15_EnvVarFollowsPrefix ==
    \A a \in Keys :
        "env_var" \notin Definition(a).given =>
            /\ Definition(a).env_var = ClaimedEnvVar(a)
            /\ Parsed =>
                  ( a \in DOMAIN env_defaults <=>
                      /\ ClaimedEnvVar(a) \in DOMAIN environ
                      /\ Convertible(Definition(a).type, environ[ClaimedEnvVar(a)]) )

====
